---------------------------- MODULE Spec2Model ----------------------------
(***************************************************************************)
(* Model of buildexe-to-compilecommands (src/src/main.rs): the build.exe   *)
(* log parser get_raw_commands, the entry extractor                        *)
(* CompileCommandsEntry::from_raw_command, merge_new_compile_commands and  *)
(* main.                                                                   *)
(*                                                                         *)
(* Text is modelled as sequences of one-character strings, so that the     *)
(* regular expressions, starts_with, the byte slice line[5..], trim,       *)
(* split_whitespace and join are computed as the code computes them.       *)
(***************************************************************************)
EXTENDS Naturals, Sequences, FiniteSets

VARIABLES
    pc,               \* position of the run (which statement of main / get_raw_commands is next)
    log,              \* the lines log.lines() has yielded so far, in order
    state,            \* State::LookingForCommand / State::ReadingCommand
    cur_command,      \* Vec<String>: fragments of the command being read
    command_prefix,   \* continuation prefix of the command being read
    cur_thread,       \* thread tag of the command being read
    dirs,             \* HashMap<String, PathBuf>: thread tag -> directory
    raw_commands,     \* Vec<RawCommand> built by get_raw_commands
    panic,            \* the panic that ended the run, or NoPanic
    compile_commands, \* main: the newly extracted entries
    existing_commands,\* main: the entries read from compile_commands.json
    merged,           \* result of merge_new_compile_commands
    prev_merged,      \* result of the previous merge (second merge of a result)
    db_file,          \* compile_commands.json on disk
    db_before         \* compile_commands.json as it was when the run started

vars == <<pc, log, state, cur_command, command_prefix, cur_thread, dirs,
          raw_commands, panic, compile_commands, existing_commands, merged,
          prev_merged, db_file, db_before>>

parser_vars == <<log, state, cur_command, command_prefix, cur_thread, dirs,
                 raw_commands>>

main_vars == <<compile_commands, existing_commands, merged, prev_merged,
               db_file, db_before>>

---------------------------------------------------------------------------
(* Bounds of the model *)

\* longest log given to get_raw_commands on its own
MaxLog == 5

---------------------------------------------------------------------------
(* Program constants *)

\* \d{4}: a thread tag is four digits
TagWidth == 4

\* line[5..]: the byte offset at which a fragment starts
StripOffset == 5

---------------------------------------------------------------------------
(* Text helpers *)

\* U+0660 ARABIC-INDIC DIGIT ZERO, one character of two UTF-8 bytes
WideZero == "U+0660"

\* \d of the regex crate is \p{Nd}: the ASCII digits and the decimal digits
\* of the other scripts, of which the model has one
Digits == {"0","1","2","3","4","5","6","7","8","9", WideZero}

\* char::len_utf8
ByteLen(c) == IF c = WideZero THEN 2 ELSE 1

RECURSIVE Bytes(_)
\* str::len: the length of the text in bytes
Bytes(s) == IF s = <<>> THEN 0 ELSE ByteLen(s[1]) + Bytes(Tail(s))

\* \s and char::is_whitespace, on the characters the model uses
IsWhitespace(c) == c \in {" ", "\t"}

Range(s) == {s[i] : i \in 1..Len(s)}

\* str::starts_with
StartsWith(s, p) == Len(s) >= Len(p) /\ SubSeq(s, 1, Len(p)) = p

\* str::ends_with
EndsWith(s, p) ==
    Len(s) >= Len(p) /\ SubSeq(s, Len(s) - Len(p) + 1, Len(s)) = p

\* s[n..]: the text from byte offset n (0-based) to the end
SliceFrom(s, n) == SubSeq(s, n + 1, Len(s))

\* str::trim: surrounding whitespace removed
Trim(s) ==
    LET keep == {i \in 1..Len(s) : ~IsWhitespace(s[i])}
    IN  IF keep = {} THEN <<>>
        ELSE LET lo == CHOOSE i \in keep : \A j \in keep : i <= j
                 hi == CHOOSE i \in keep : \A j \in keep : j <= i
             IN  SubSeq(s, lo, hi)

---------------------------------------------------------------------------
(* The log lines the model draws from *)

\* '0001>BUILDMSG: Processing /a'
LineDirA1 ==
    <<"0","0","0","1",">","B","U","I","L","D","M","S","G",":"," ","P","r","o","c","e","s","s","i","n","g"," ","/","a">>
\* '0001>Compiling b ***'
LineDirB1 ==
    <<"0","0","0","1",">","C","o","m","p","i","l","i","n","g"," ","b"," ","*","*","*">>
\* '0002>BUILDMSG: Processing /c'
LineDirA2 ==
    <<"0","0","0","2",">","B","U","I","L","D","M","S","G",":"," ","P","r","o","c","e","s","s","i","n","g"," ","/","c">>
\* '0001>cl -c x.c'
LineCl1 ==
    <<"0","0","0","1",">","c","l"," ","-","c"," ","x",".","c">>
\* '0002>cl y.cpp'
LineCl2 ==
    <<"0","0","0","2",">","c","l"," ","y",".","c","p","p">>
\* '0001>cl\tw.cpp'
LineCl1b ==
    <<"0","0","0","1",">","c","l","\t","w",".","c","p","p">>

\* '000<U+0660>>cl w.c': the tag is four digits and five bytes
LineClWide ==
    <<"0","0","0",WideZero,">","c","l"," ","w",".","c">>
\* '<U+0660><U+0660><U+0660><U+0660>>cl w.c': the tag is four digits and
\* eight bytes
LineClWide4 ==
    <<WideZero,WideZero,WideZero,WideZero,">","c","l"," ","w",".","c">>

\* '0001>   z.c'
LineCont1 ==
    <<"0","0","0","1",">"," "," "," ","z",".","c">>
\* '0002>   /c/v.c'
LineCont2 ==
    <<"0","0","0","2",">"," "," "," ","/","c","/","v",".","c">>
\* 'link'
LineOther ==
    <<"l","i","n","k">>

Lines == {LineDirA1, LineDirB1, LineDirA2, LineCl1, LineCl2, LineCl1b,
          LineClWide, LineClWide4, LineCont1, LineCont2, LineOther}

---------------------------------------------------------------------------
(* The regular expressions of get_raw_commands *)

\* ^(\d{4}): the line starts with a thread tag
HasTag(line) ==
    Len(line) >= TagWidth /\ \A i \in 1..TagWidth : line[i] \in Digits

\* capture group 1 of the three regular expressions
TagOf(line) == SubSeq(line, 1, TagWidth)

\* '>cl'
CommandMark == <<">","c","l">>

\* command_re = ^(\d{4})>cl\s
command_re(line) ==
    /\ HasTag(line)
    /\ StartsWith(SliceFrom(line, TagWidth), CommandMark)
    /\ Len(line) > TagWidth + Len(CommandMark)
    /\ IsWhitespace(line[TagWidth + Len(CommandMark) + 1])

\* '>BUILDMSG: Processing '
ProcessingMark ==
    <<">","B","U","I","L","D","M","S","G",":"," ","P","r","o","c","e","s","s","i","n","g"," ">>

\* '>Compiling '
CompilingMark == <<">","C","o","m","p","i","l","i","n","g"," ">>

\* dir_regexes[0] = ^(\d{4})>BUILDMSG: Processing (.+)$
dir_regex_0(line) ==
    /\ HasTag(line)
    /\ StartsWith(SliceFrom(line, TagWidth), ProcessingMark)
    /\ Len(line) > TagWidth + Len(ProcessingMark)

\* capture group 2 of dir_regexes[0]
dir_regex_0_dir(line) == SliceFrom(line, TagWidth + Len(ProcessingMark))

\* the positions at which the ' \*+$' tail of dir_regexes[1] can start: a
\* space followed by one or more '*' up to the end of the line, leaving
\* a non-empty (.+) before it
StarTails(line) ==
    {i \in (TagWidth + Len(CompilingMark) + 2)..(Len(line) - 1) :
        /\ line[i] = " "
        /\ \A j \in (i + 1)..Len(line) : line[j] = "*"}

\* dir_regexes[1] = ^(\d{4})>Compiling (.+) \*+$
dir_regex_1(line) ==
    /\ HasTag(line)
    /\ StartsWith(SliceFrom(line, TagWidth), CompilingMark)
    /\ StarTails(line) # {}

\* capture group 2 of dir_regexes[1]; (.+) is greedy: the last tail
dir_regex_1_dir(line) ==
    LET t == CHOOSE i \in StarTails(line) : \A j \in StarTails(line) : j <= i
    IN  SubSeq(line, TagWidth + Len(CompilingMark) + 1, t - 1)

\* the loop over dir_regexes: does one of them match
IsDirLine(line) == dir_regex_0(line) \/ dir_regex_1(line)

\* the directory of the first of dir_regexes that matches (then break)
DirOf(line) ==
    IF dir_regex_0(line) THEN dir_regex_0_dir(line) ELSE dir_regex_1_dir(line)

\* format!("{}>   ", thread)
ContinuationPrefix(thread) == thread \o <<">"," "," "," ">>

\* a continuation test that looks at the shape only: any thread's tag, '>'
\* and three spaces
IsContinuation_AnyThread(line, prefix) ==
    HasTag(line) /\ StartsWith(SliceFrom(line, TagWidth), SliceFrom(prefix, TagWidth))

\* line.starts_with(&command_prefix)
IsContinuation(line, prefix) == StartsWith(line, prefix)

\* the numbers of leading characters of the line that take n bytes
CharsInBytes(line, n) ==
    {k \in 0..n : k <= Len(line) /\ Bytes(SubSeq(line, 1, k)) = n}

\* str::is_char_boundary: line[n..] panics where it is false
IsCharBoundary(line, n) == CharsInBytes(line, n) # {}

\* line[n..], n a byte offset; where the slice panics there is no value
\* and the empty text stands for it
ByteSliceFrom(line, n) ==
    IF IsCharBoundary(line, n)
    THEN SliceFrom(line, CHOOSE k \in CharsInBytes(line, n) : TRUE)
    ELSE <<>>

\* line[5..].trim().to_string()
Fragment(line) == Trim(ByteSliceFrom(line, StripOffset))

\* an insert that forgets every other key of the map
MapInsert_Alone(m, k, v) == [x \in {k} |-> v]

\* HashMap::insert
MapInsert(m, k, v) ==
    [x \in DOMAIN m \cup {k} |-> IF x = k THEN v ELSE m[x]]

EmptyMap == [x \in {} |-> <<>>]

NoPanic == [kind |-> "none", arg |-> <<>>]

---------------------------------------------------------------------------
(* get_raw_commands *)

\* LookingForCommand with a command pattern that lacks 'cl\s': every
\* tagged line starts a command
LookingForCommand_AnyTagStarts(line) ==
    IF HasTag(line) /\ StartsWith(SliceFrom(line, TagWidth), <<">">>)
    THEN IF IsCharBoundary(line, StripOffset)
         THEN /\ cur_thread' = TagOf(line)
              /\ command_prefix' = ContinuationPrefix(TagOf(line))
              /\ cur_command' = Append(cur_command, Fragment(line))
              /\ state' = "ReadingCommand"
              /\ UNCHANGED <<dirs, raw_commands, panic>>
         ELSE /\ panic' = [kind |-> "char_boundary", arg |-> line]
              /\ UNCHANGED <<state, cur_command, command_prefix, cur_thread,
                             dirs, raw_commands>>
    ELSE UNCHANGED <<state, cur_command, command_prefix, cur_thread, dirs,
                     raw_commands, panic>>

\* the arm State::LookingForCommand of the match, for one line
LookingForCommand(line) ==
    IF command_re(line)
    THEN IF IsCharBoundary(line, StripOffset)
         THEN /\ cur_thread' = TagOf(line)
              /\ command_prefix' = ContinuationPrefix(TagOf(line))
              /\ cur_command' = Append(cur_command, Fragment(line))
              /\ state' = "ReadingCommand"
              /\ UNCHANGED <<dirs, raw_commands, panic>>
         ELSE \* line[5..]: "byte index 5 is not a char boundary"
              /\ panic' = [kind |-> "char_boundary", arg |-> line]
              /\ UNCHANGED <<state, cur_command, command_prefix, cur_thread,
                             dirs, raw_commands>>
    ELSE /\ dirs' = IF IsDirLine(line)
                    THEN MapInsert(dirs, TagOf(line), DirOf(line))
                    ELSE dirs
         /\ UNCHANGED <<state, cur_command, command_prefix, cur_thread,
                        raw_commands, panic>>

\* ReadingCommand with a default directory in place of the expect: a
\* command of a thread without directory is emitted with an empty path
ReadingCommand_DefaultDir(line) ==
    IF IsContinuation(line, command_prefix)
    THEN /\ cur_command' = Append(cur_command, Fragment(line))
         /\ UNCHANGED <<state, command_prefix, cur_thread, dirs, raw_commands,
                        panic>>
    ELSE /\ raw_commands' = Append(raw_commands,
                 [dir |-> IF cur_thread \in DOMAIN dirs
                          THEN dirs[cur_thread] ELSE <<>>,
                  lines |-> cur_command])
         /\ cur_command' = <<>>
         /\ state' = "LookingForCommand"
         /\ UNCHANGED <<command_prefix, cur_thread, dirs, panic>>

\* ReadingCommand without `cur_command = Vec::new()` after the push
ReadingCommand_KeepBuffer(line) ==
    IF IsContinuation(line, command_prefix)
    THEN /\ cur_command' = Append(cur_command, Fragment(line))
         /\ UNCHANGED <<state, command_prefix, cur_thread, dirs, raw_commands,
                        panic>>
    ELSE IF cur_thread \in DOMAIN dirs
         THEN /\ raw_commands' = Append(raw_commands,
                      [dir |-> dirs[cur_thread], lines |-> cur_command])
              /\ state' = "LookingForCommand"
              /\ UNCHANGED <<cur_command, command_prefix, cur_thread, dirs,
                             panic>>
         ELSE /\ panic' = [kind |-> "no_directory", arg |-> cur_thread]
              /\ UNCHANGED <<state, cur_command, command_prefix, cur_thread,
                             dirs, raw_commands>>

\* ReadingCommand with the finished command put in front of the vector
ReadingCommand_Prepend(line) ==
    IF IsContinuation(line, command_prefix)
    THEN /\ cur_command' = Append(cur_command, Fragment(line))
         /\ UNCHANGED <<state, command_prefix, cur_thread, dirs, raw_commands,
                        panic>>
    ELSE IF cur_thread \in DOMAIN dirs
         THEN /\ raw_commands' =
                     <<[dir |-> dirs[cur_thread], lines |-> cur_command]>>
                         \o raw_commands
              /\ cur_command' = <<>>
              /\ state' = "LookingForCommand"
              /\ UNCHANGED <<command_prefix, cur_thread, dirs, panic>>
         ELSE /\ panic' = [kind |-> "no_directory", arg |-> cur_thread]
              /\ UNCHANGED <<state, cur_command, command_prefix, cur_thread,
                             dirs, raw_commands>>

\* the arm State::ReadingCommand of the match, for one line
ReadingCommand(line) ==
    IF IsContinuation(line, command_prefix)
    THEN /\ cur_command' = Append(cur_command, Fragment(line))
         /\ UNCHANGED <<state, command_prefix, cur_thread, dirs, raw_commands,
                        panic>>
    ELSE IF cur_thread \in DOMAIN dirs
         THEN /\ raw_commands' = Append(raw_commands,
                      [dir |-> dirs[cur_thread], lines |-> cur_command])
              /\ cur_command' = <<>>
              /\ state' = "LookingForCommand"
              /\ UNCHANGED <<command_prefix, cur_thread, dirs, panic>>
         ELSE \* expect: "Unable to determine directory for thread {}"
              /\ panic' = [kind |-> "no_directory", arg |-> cur_thread]
              /\ UNCHANGED <<state, cur_command, command_prefix, cur_thread,
                             dirs, raw_commands>>

\* one iteration of `for line in log.lines()`
LoopBody(line) ==
    /\ log' = Append(log, line)
    /\ IF state = "LookingForCommand"
       THEN LookingForCommand(line)
       ELSE ReadingCommand(line)

\* get_raw_commands called on a log: one line is read
ParseLine ==
    /\ pc = "parse"
    /\ Len(log) < MaxLog
    /\ \E line \in Lines : LoopBody(line)
    /\ pc' = IF panic' = NoPanic THEN "parse" ELSE "panicked"
    /\ UNCHANGED main_vars

\* log.lines() is exhausted: get_raw_commands returns raw_commands
EndOfLog ==
    /\ pc = "parse"
    /\ pc' = "returned"
    /\ UNCHANGED <<parser_vars, panic, main_vars>>

NoFile == [kind |-> "absent", entries |-> <<>>]

ParserInit ==
    /\ log = <<>>
    /\ state = "LookingForCommand"
    /\ cur_command = <<>>
    /\ command_prefix = <<>>
    /\ cur_thread = <<>>
    /\ dirs = EmptyMap
    /\ raw_commands = <<>>
    /\ panic = NoPanic

Init ==
    /\ pc = "parse"
    /\ ParserInit
    /\ compile_commands = <<>>
    /\ existing_commands = <<>>
    /\ merged = <<>>
    /\ prev_merged = <<>>
    /\ db_file = NoFile
    /\ db_before = NoFile

Next == ParseLine \/ EndOfLog

Spec == Init /\ [][Next]_vars

---------------------------------------------------------------------------
(* RawCommand and CompileCommandsEntry::from_raw_command *)

RECURSIVE Join(_, _)
\* [String]::join(sep)
Join(strs, sep) ==
    IF strs = <<>> THEN <<>>
    ELSE IF Len(strs) = 1 THEN strs[1]
    ELSE strs[1] \o sep \o Join(Tail(strs), sep)

\* the lines concatenated without separator
full_command_NoSeparator(command) == Join(command.lines, <<>>)

\* RawCommand::full_command
full_command(command) == Join(command.lines, <<" ">>)

\* length of the longest prefix of s without whitespace
TokenLen(s) ==
    LET stops == {i \in 1..Len(s) : IsWhitespace(s[i])}
    IN  IF stops = {} THEN Len(s)
        ELSE (CHOOSE i \in stops : \A j \in stops : i <= j) - 1

RECURSIVE SplitWhitespace(_)
\* str::split_whitespace
SplitWhitespace(s) ==
    IF s = <<>> THEN <<>>
    ELSE IF IsWhitespace(s[1]) THEN SplitWhitespace(Tail(s))
    ELSE <<SubSeq(s, 1, TokenLen(s))>>
             \o SplitWhitespace(SliceFrom(s, TokenLen(s)))

\* '.cpp'
SuffixCpp == <<".","c","p","p">>

\* '.c'
SuffixC == <<".","c">>

\* a test for the extension anywhere in the token instead of at its end
IsSourceFile_Contains(token) ==
    \E i \in 1..Len(token) :
        StartsWith(SliceFrom(token, i - 1), SuffixC)

\* token.ends_with(".cpp") || token.ends_with(".c")
IsSourceFile(token) == EndsWith(token, SuffixCpp) \/ EndsWith(token, SuffixC)

RECURSIVE SourceTokens(_)
\* the tokens of one line that are pushed onto source_files
SourceTokens(tokens) ==
    IF tokens = <<>> THEN <<>>
    ELSE IF IsSourceFile(tokens[1])
         THEN <<tokens[1]>> \o SourceTokens(Tail(tokens))
         ELSE SourceTokens(Tail(tokens))

RECURSIVE SourceFilesOf(_)
\* the loop of RawCommand::source_files over the lines
SourceFilesOf(lines) ==
    IF lines = <<>> THEN <<>>
    ELSE SourceTokens(SplitWhitespace(lines[1]))
             \o SourceFilesOf(Tail(lines))

\* RawCommand::source_files
source_files(command) == SourceFilesOf(command.lines)

\* the current directory of the process: '/w'
Cwd ==
    <<"/","w">>

\* Path::is_absolute
IsAbsolute(path) == path # <<>> /\ path[1] = "/"

\* Path::join (PathBuf::push): an absolute path replaces the base
PathJoin(base, path) ==
    IF IsAbsolute(path) THEN path
    ELSE IF base # <<>> /\ base[Len(base)] # "/" THEN base \o <<"/">> \o path
    ELSE base \o path

RECURSIVE Components(_)
\* Path::components: the names between the separators, without the empty
\* ones and the '.' ones
Components(path) ==
    IF path = <<>> THEN <<>>
    ELSE LET seps == {i \in 1..Len(path) : path[i] = "/"}
             n == IF seps = {} THEN Len(path)
                  ELSE (CHOOSE i \in seps : \A j \in seps : i <= j) - 1
             name == SubSeq(path, 1, n)
             rest == SliceFrom(path, IF n < Len(path) THEN n + 1 ELSE n)
         IN  IF name = <<>> \/ name = <<".">> THEN Components(rest)
             ELSE <<name>> \o Components(rest)

\* std::path::absolute where it succeeds: the components after '/' or
\* after the current directory; no '..' is resolved
Absolute(path) ==
    IF IsAbsolute(path)
    THEN <<"/">> \o Join(Components(path), <<"/">>)
    ELSE Cwd \o <<"/">> \o Join(Components(path), <<"/">>)

\* std::path::absolute fails on an empty path, and on a relative one when
\* the current directory cannot be read
AbsoluteFails(path, cwd_ok) == path = <<>> \/ (~IsAbsolute(path) /\ ~cwd_ok)

\* the closure of from_raw_command applied to one source file
EntryOf(command, source_file) ==
    [directory |-> command.dir,
     command   |-> full_command(command),
     file      |-> Absolute(PathJoin(command.dir, source_file))]

\* CompileCommandsEntry::from_raw_command
from_raw_command(command) ==
    LET files == source_files(command)
    IN  [i \in 1..Len(files) |-> EntryOf(command, files[i])]

RECURSIVE CollectEntries(_)
\* raw_commands.iter().flat_map(CompileCommandsEntry::from_raw_command).collect()
CollectEntries(commands) ==
    IF commands = <<>> THEN <<>>
    ELSE from_raw_command(commands[1]) \o CollectEntries(Tail(commands))

RECURSIVE JoinedPaths(_)
\* the joined paths that the collect resolves with path::absolute, in order
JoinedPaths(commands) ==
    IF commands = <<>> THEN <<>>
    ELSE LET files == source_files(commands[1])
         IN  [i \in 1..Len(files) |-> PathJoin(commands[1].dir, files[i])]
                 \o JoinedPaths(Tail(commands))

---------------------------------------------------------------------------
(* merge_new_compile_commands *)

RECURSIVE InsertAll_KeyedByCommand(_, _)
\* the loop with the map keyed by command.command
InsertAll_KeyedByCommand(by_file, commands) ==
    IF commands = <<>> THEN by_file
    ELSE InsertAll_KeyedByCommand(
             MapInsert(by_file, commands[1].command, commands[1]),
             Tail(commands))

RECURSIVE InsertAll_FirstWins(_, _)
\* the loop with an insert that keeps the value a key already has
InsertAll_FirstWins(by_file, commands) ==
    IF commands = <<>> THEN by_file
    ELSE InsertAll_FirstWins(
             IF commands[1].file \in DOMAIN by_file THEN by_file
             ELSE MapInsert(by_file, commands[1].file, commands[1]),
             Tail(commands))

RECURSIVE InsertAll(_, _)
\* the loop: by_file.insert(command.file.clone(), command) for each command
InsertAll(by_file, commands) ==
    IF commands = <<>> THEN by_file
    ELSE InsertAll(MapInsert(by_file, commands[1].file, commands[1]),
                   Tail(commands))

\* the chain in the other order: existing entries overwrite new ones
ByFile_ExistingLast(existing, new) == InsertAll(EmptyMap, new \o existing)

\* the existing entries are left out of the chain
ByFile_OnlyNew(existing, new) == InsertAll(EmptyMap, new)

\* the loop misses the first command of the chain
ByFile_SkipFirst(existing, new) ==
    IF existing \o new = <<>> THEN EmptyMap
    ELSE InsertAll(EmptyMap, Tail(existing \o new))

\* by_file after the loop over existing.into_iter().chain(new.into_iter())
ByFile(existing, new) == InsertAll(EmptyMap, existing \o new)

\* by_file.into_values().collect(): the values in the map's iteration
\* order, which is any order
IntoValues(by_file) ==
    LET n == Cardinality(DOMAIN by_file)
    IN  {s \in [1..n -> {by_file[k] : k \in DOMAIN by_file}] :
            \A k \in DOMAIN by_file : \E i \in 1..n : s[i] = by_file[k]}

\* merge_new_compile_commands: the vectors it can return
merge_new_compile_commands(existing, new) == IntoValues(ByFile(existing, new))

---------------------------------------------------------------------------
(* main *)

\* the longest log main reads
MainMaxLog == 3

\* '/a/x.c'
FileX ==
    <<"/","a","/","x",".","c">>
\* '/w/b/y.cpp'
FileY ==
    <<"/","w","/","b","/","y",".","c","p","p">>
\* 'cl -c old.c'
CmdOld ==
    <<"c","l"," ","-","c"," ","o","l","d",".","c">>
\* 'cl -c x.c'
CmdNew ==
    <<"c","l"," ","-","c"," ","x",".","c">>
\* '/a'
PathA ==
    <<"/","a">>
\* 'b'
PathB ==
    <<"b">>

\* entries a compile_commands.json may hold before the run
EntryOldX == [directory |-> PathA, command |-> CmdOld, file |-> FileX]
EntryOldX2 == [directory |-> PathB, command |-> CmdNew, file |-> FileX]
EntryOldY == [directory |-> PathB, command |-> CmdOld, file |-> FileY]

\* a compile_commands.json that serde_json deserializes to entries
JsonFile(entries) == [kind |-> "json", entries |-> entries]

\* a compile_commands.json that does not deserialize (also: a truncated one)
InvalidFile == [kind |-> "invalid", entries |-> <<>>]

\* the contents compile_commands.json may have before the run
DbFiles ==
    {NoFile, InvalidFile, JsonFile(<<>>), JsonFile(<<EntryOldX>>),
     JsonFile(<<EntryOldY, EntryOldX>>), JsonFile(<<EntryOldX, EntryOldX2>>)}

\* the run panics: nothing of main runs after it
Fail(kind, arg) ==
    /\ pc' = "panicked"
    /\ panic' = [kind |-> kind, arg |-> arg]

\* args.len() != 2: usage message and exit(1)
Usage ==
    /\ pc = "main"
    /\ \E argc \in {1, 3} : pc' = "exit_usage"
    /\ UNCHANGED <<parser_vars, panic, main_vars>>

\* path::absolute(log_path), parent(), fs::read_to_string(log_path)
ReadLog ==
    /\ pc = "main"
    /\ \E path_ok \in BOOLEAN, read_ok \in BOOLEAN :
          IF ~path_ok THEN Fail("resolve_log_path", <<>>)
          ELSE IF ~read_ok THEN Fail("read_log", <<>>)
          ELSE pc' = "main_parse" /\ UNCHANGED panic
    /\ UNCHANGED <<parser_vars, main_vars>>

\* get_raw_commands(log) called by main: one line is read
MainParseLine ==
    /\ pc = "main_parse"
    /\ Len(log) < MainMaxLog
    /\ \E line \in Lines : LoopBody(line)
    /\ pc' = IF panic' = NoPanic THEN "main_parse" ELSE "panicked"
    /\ UNCHANGED main_vars

\* the end of the loop with a flush: a command still being read is
\* finalized like one ended by a line
MainEndOfLog_Flush ==
    /\ pc = "main_parse"
    /\ IF state = "ReadingCommand"
       THEN IF cur_thread \in DOMAIN dirs
            THEN /\ raw_commands' = Append(raw_commands,
                         [dir |-> dirs[cur_thread], lines |-> cur_command])
                 /\ cur_command' = <<>>
                 /\ state' = "LookingForCommand"
                 /\ pc' = "extract"
                 /\ UNCHANGED panic
            ELSE /\ Fail("no_directory", cur_thread)
                 /\ UNCHANGED <<raw_commands, cur_command, state>>
       ELSE /\ pc' = "extract"
            /\ UNCHANGED <<raw_commands, cur_command, state, panic>>
    /\ UNCHANGED <<log, command_prefix, cur_thread, dirs, main_vars>>

\* get_raw_commands(log) returns to main
MainEndOfLog ==
    /\ pc = "main_parse"
    /\ pc' = "extract"
    /\ UNCHANGED <<parser_vars, panic, main_vars>>

\* the first joined path that path::absolute fails on, if any
FailingPaths(paths, cwd_ok) ==
    {i \in 1..Len(paths) : AbsoluteFails(paths[i], cwd_ok)}

\* raw_commands.iter().flat_map(from_raw_command).collect()
Extract ==
    /\ pc = "extract"
    /\ \E cwd_ok \in BOOLEAN :
          LET paths == JoinedPaths(raw_commands)
              bad == FailingPaths(paths, cwd_ok)
          IN  IF bad # {}
              THEN /\ Fail("resolve_path",
                           paths[CHOOSE i \in bad : \A j \in bad : i <= j])
                   /\ UNCHANGED compile_commands
              ELSE /\ compile_commands' = CollectEntries(raw_commands)
                   /\ pc' = "read_existing"
                   /\ UNCHANGED panic
    /\ UNCHANGED <<parser_vars, existing_commands, merged, prev_merged,
                   db_file, db_before>>

\* compile_commands_path.exists(), fs::read_to_string, serde_json::from_str
ReadExisting ==
    /\ pc = "read_existing"
    /\ \E read_ok \in BOOLEAN :
          IF db_file.kind = "absent"
          THEN /\ existing_commands' = <<>>
               /\ pc' = "merge"
               /\ UNCHANGED panic
          ELSE IF ~read_ok
          THEN Fail("read_existing", <<>>) /\ UNCHANGED existing_commands
          ELSE IF db_file.kind # "json"
          THEN Fail("parse_existing", <<>>) /\ UNCHANGED existing_commands
          ELSE /\ existing_commands' = db_file.entries
               /\ pc' = "merge"
               /\ UNCHANGED panic
    /\ UNCHANGED <<parser_vars, compile_commands, merged, prev_merged,
                   db_file, db_before>>

\* compile_commands = merge_new_compile_commands(existing_commands, compile_commands)
Merge ==
    /\ pc = "merge"
    /\ merged' \in merge_new_compile_commands(existing_commands,
                                              compile_commands)
    /\ pc' = "write"
    /\ UNCHANGED <<parser_vars, panic, compile_commands, existing_commands,
                   prev_merged, db_file, db_before>>

\* what fs::write can do: replace the contents; fail to open the file and
\* leave it as it is; or fail after File::create has truncated it
WriteOutcomes == {"written", "open_failed", "write_failed"}

\* serde_json::to_string_pretty and fs::write(&compile_commands_path, json)
Write ==
    /\ pc = "write"
    /\ \E outcome \in WriteOutcomes :
          IF outcome = "written"
          THEN /\ db_file' = JsonFile(merged)
               /\ pc' = "done"
               /\ UNCHANGED panic
          ELSE IF outcome = "open_failed"
          THEN Fail("write", <<>>) /\ UNCHANGED db_file
          ELSE Fail("write", <<>>) /\ db_file' = InvalidFile
    /\ UNCHANGED <<parser_vars, compile_commands, existing_commands, merged,
                   prev_merged, db_before>>

MainInit ==
    /\ pc = "main"
    /\ ParserInit
    /\ compile_commands = <<>>
    /\ existing_commands = <<>>
    /\ merged = <<>>
    /\ prev_merged = <<>>
    /\ db_file \in DbFiles
    /\ db_before = db_file

MainNext ==
    \/ Usage
    \/ ReadLog
    \/ MainParseLine
    \/ MainEndOfLog
    \/ Extract
    \/ ReadExisting
    \/ Merge
    \/ Write

MainSpec == MainInit /\ [][MainNext]_vars

---------------------------------------------------------------------------
(* merge_new_compile_commands on its own *)

\* longest existing vector given to merge_new_compile_commands
MaxExisting == 2

\* longest new vector given to merge_new_compile_commands
MaxNew == 2

\* the entries the vectors are drawn from: two files, two commands, two
\* directories
MergeEntries ==
    {[directory |-> d, command |-> c, file |-> f] :
        d \in {PathA, PathB}, c \in {CmdOld, CmdNew}, f \in {FileX, FileY}}

\* the vectors of at most n entries
EntryVectors(n) == UNION {[1..k -> MergeEntries] : k \in 0..n}

MergeInit ==
    /\ pc = "merge_call"
    /\ ParserInit
    /\ existing_commands \in EntryVectors(MaxExisting)
    /\ compile_commands \in EntryVectors(MaxNew)
    /\ merged = <<>>
    /\ prev_merged = <<>>
    /\ db_file = NoFile
    /\ db_before = NoFile

\* merge_new_compile_commands(existing, new) is called and returns
MergeCall ==
    /\ pc = "merge_call"
    /\ merged' \in merge_new_compile_commands(existing_commands,
                                              compile_commands)
    /\ pc' = "merge_returned"
    /\ UNCHANGED <<parser_vars, panic, compile_commands, existing_commands,
                   prev_merged, db_file, db_before>>

\* the result is merged again with the same new entries, as the next run
\* of main on the same log does with the file it wrote
MergeAgain ==
    /\ pc = "merge_returned"
    /\ prev_merged' = merged
    /\ existing_commands' = merged
    /\ merged' \in merge_new_compile_commands(merged, compile_commands)
    /\ pc' = "merge_again_returned"
    /\ UNCHANGED <<parser_vars, panic, compile_commands, db_file, db_before>>

MergeNext == MergeCall \/ MergeAgain

MergeSpec == MergeInit /\ [][MergeNext]_vars

---------------------------------------------------------------------------
(* Vocabulary of the properties *)

Last(s) == s[Len(s)]

\* a step of the loop of get_raw_commands: one more line has been read
LineRead == log' # log

\* the line-shaped continuation of some thread: tag, '>' and three spaces
IsContinuationOf(line, thread) ==
    StartsWith(line, thread \o <<">"," "," "," ">>)

\* the indices of the lines of l before index n that announce a directory
\* for the thread
Announcements(l, n, thread) ==
    {h \in 1..(n - 1) : IsDirLine(l[h]) /\ TagOf(l[h]) = thread}

\* the directory text of the most recent announcement for the thread
\* before index n
LastAnnouncedDir(l, n, thread) ==
    LET a == Announcements(l, n, thread)
    IN  DirOf(l[CHOOSE h \in a : \A g \in a : g <= h])

\* The raw command c was read from the lines i .. i+m-1 of the log, all of
\* the thread of line i, and ended by line i+m
ReadFrom(c, i) ==
    LET m == Len(c.lines)
    IN  /\ m >= 1
        /\ i + m <= Len(log)
        /\ command_re(log[i])
        /\ \A j \in 1..m :
              /\ HasTag(log[i + j - 1])
              /\ TagOf(log[i + j - 1]) = TagOf(log[i])
              /\ c.lines[j] = Fragment(log[i + j - 1])

---------------------------------------------------------------------------
(* C1 *)

\* the first sentence of C1, for one step: the line that ends a command is
\* classified again and, being a command start, opens the next command
TerminatingLineStartsCommand ==
    (/\ pc = "parse"
     /\ LineRead
     /\ state = "ReadingCommand"
     /\ ~IsContinuation(Last(log'), command_prefix)
     /\ cur_thread \in DOMAIN dirs
     /\ command_re(Last(log')))
        => (/\ state' = "ReadingCommand"
            /\ cur_thread' = TagOf(Last(log'))
            /\ cur_command' = <<Fragment(Last(log'))>>)

\* the consequence C1 draws, on the returned sequence: every command-start
\* line whose thread has an announced directory and that is followed by a
\* later line that does not continue it has its own raw command
EveryCommandStartYieldsCommand ==
    pc = "returned" =>
        \A i \in 1..Len(log) :
            (/\ command_re(log[i])
             /\ Announcements(log, i, TagOf(log[i])) # {}
             /\ \E j \in (i + 1)..Len(log) :
                    ~IsContinuationOf(log[j], TagOf(log[i])))
                => \E k \in 1..Len(raw_commands) :
                      raw_commands[k].lines[1] = Fragment(log[i])

\* C1: a line that ends a command in ReadingCommand is classified again by
\* the LookingForCommand rules, so a command-start line that ends a command
\* begins the next one, and every command-start line followed by a later
\* non-continuation line yields its own RawCommand.
C1_TerminatingLineReclassified ==
    [][TerminatingLineStartsCommand]_vars /\ []EveryCommandStartYieldsCommand

---------------------------------------------------------------------------
(* C2 *)

\* C2: the directory of every emitted RawCommand is the directory text of
\* the most recent directory-announcement line for the command's thread
\* among the lines before the one that ended the command, whichever state
\* the parser was in when it read that announcement.
C2_DirIsLastAnnounced ==
    [][(pc = "parse" /\ LineRead /\ Len(raw_commands') > Len(raw_commands))
          => /\ Announcements(log, Len(log) + 1, cur_thread) # {}
             /\ Last(raw_commands').dir
                    = LastAnnouncedDir(log, Len(log) + 1, cur_thread)]_vars

---------------------------------------------------------------------------
(* C3 *)

\* C3: every emitted RawCommand consists of the fragments of consecutive
\* log lines that all carry the thread tag of its command-start line, and
\* its directory is one announced for that same thread; no line of another
\* thread is part of it.
C3_ThreadScoped ==
    \A k \in 1..Len(raw_commands) :
        \E i \in 1..Len(log) :
            /\ ReadFrom(raw_commands[k], i)
            /\ \E h \in Announcements(log, i + Len(raw_commands[k].lines),
                                      TagOf(log[i])) :
                  raw_commands[k].dir = DirOf(log[h])

\* a command of one thread, with a continuation line, was ended by a
\* continuation line of another thread, both threads having a directory
C3_Witness ==
    /\ Len(log) = 5
    /\ Len(raw_commands) = 1
    /\ Len(raw_commands[1].lines) = 2
    /\ ReadFrom(raw_commands[1], 3)
    /\ HasTag(log[5])
    /\ TagOf(log[5]) # TagOf(log[3])
    /\ IsContinuationOf(log[5], TagOf(log[5]))
    /\ TagOf(log[5]) \in DOMAIN dirs
    /\ dirs[TagOf(log[5])] # raw_commands[1].dir

---------------------------------------------------------------------------
(* C4 *)

\* the command being read is ended by the line just read, and its thread
\* has no directory
EndsCommandWithoutDirectory ==
    /\ pc = "main_parse"
    /\ LineRead
    /\ state = "ReadingCommand"
    /\ ~IsContinuation(Last(log'), command_prefix)
    /\ cur_thread \notin DOMAIN dirs

\* C4: when a command is ended for a thread without a directory entry, the
\* run stops at once in a panic that names that thread: no RawCommand is
\* emitted for the command, nothing is done after the panic (no further
\* line, no extraction, no merge) and compile_commands.json is not written.
C4_NoDirectoryIsFatal ==
    [][/\ EndsCommandWithoutDirectory
            => /\ pc' = "panicked"
               /\ panic' = [kind |-> "no_directory", arg |-> cur_thread]
               /\ raw_commands' = raw_commands
               /\ db_file' = db_file
       /\ (pc' = "panicked" /\ panic'.kind = "no_directory")
            => EndsCommandWithoutDirectory
       /\ pc = "panicked" => UNCHANGED vars]_vars
    /\ []((pc = "panicked" /\ panic.kind = "no_directory")
            => (db_file = db_before /\ merged = <<>> /\ compile_commands = <<>>))

\* a command of a thread without directory was ended, with a
\* compile_commands.json holding entries on disk
C4_Witness ==
    /\ pc = "panicked"
    /\ panic.kind = "no_directory"
    /\ panic.arg = cur_thread
    /\ cur_thread \notin DOMAIN dirs
    /\ cur_command # <<>>
    /\ db_before.kind = "json"
    /\ db_before.entries # <<>>

---------------------------------------------------------------------------
(* C5 *)

\* C5: compile_commands.json changes only in a run in which reading the
\* log, parsing, extraction and reading the existing database all
\* succeeded, and in every run that ends in a failure the file is as it
\* was before the run.
C5_FailureLeavesFileUntouched ==
    /\ db_file # db_before => pc = "done"
    /\ pc = "panicked" => db_file = db_before

---------------------------------------------------------------------------
(* Vocabulary of the merge properties *)

\* the file values of a vector of entries
Files(entries) == {entries[i].file : i \in 1..Len(entries)}

\* the last entry of the vector for the file
LastFor(entries, f) ==
    LET at == {i \in 1..Len(entries) : entries[i].file = f}
    IN  entries[CHOOSE i \in at : \A j \in at : j <= i]

\* the entries of the vector for the file
EntriesFor(entries, f) == {i \in 1..Len(entries) : entries[i].file = f}

\* merge_new_compile_commands(existing_commands, compile_commands) has
\* returned merged
MergeReturned == pc \in {"merge_returned", "merge_again_returned"}

---------------------------------------------------------------------------
(* C6 *)

\* C6: when existing holds an entry for a file and new holds an entry for
\* the same file with a different command, the result holds exactly one
\* entry for that file, and it is the entry of new for the file (the last
\* one, where new holds several): its command and directory are the new
\* ones.
C6_NewOverwritesExisting ==
    MergeReturned =>
        \A e \in Range(existing_commands), n \in Range(compile_commands) :
            (e.file = n.file /\ e.command # n.command)
                => /\ Cardinality(EntriesFor(merged, n.file)) = 1
                   /\ \A i \in EntriesFor(merged, n.file) :
                         merged[i] = LastFor(compile_commands, n.file)

\* an existing entry was replaced by a new entry for the same file with
\* another command and another directory
C6_Witness ==
    /\ pc = "merge_returned"
    /\ Len(existing_commands) = 2
    /\ Len(compile_commands) = 1
    /\ \E e \in Range(existing_commands) :
          /\ e.file = compile_commands[1].file
          /\ e.command # compile_commands[1].command
          /\ e.directory # compile_commands[1].directory
          /\ e \notin Range(merged)
    /\ compile_commands[1] \in Range(merged)
    /\ Len(merged) = 2

---------------------------------------------------------------------------
(* C7 *)

\* C7 as stated: every existing entry whose file is the file of no new
\* entry is in the result, unchanged.
C7_ExistingOnlyRetained ==
    MergeReturned =>
        \A e \in Range(existing_commands) :
            e.file \notin Files(compile_commands) => e \in Range(merged)

\* C7 amended: every existing entry whose file is the file of no new entry
\* and of no later existing entry is in the result, unchanged.
C7_LastExistingOnlyRetained ==
    MergeReturned =>
        \A i \in 1..Len(existing_commands) :
            (/\ existing_commands[i].file \notin Files(compile_commands)
             /\ \A j \in (i + 1)..Len(existing_commands) :
                   existing_commands[j].file # existing_commands[i].file)
                => existing_commands[i] \in Range(merged)

\* an existing entry without new entry for its file was retained beside a
\* new entry for another file
C7_Witness ==
    /\ pc = "merge_returned"
    /\ Len(existing_commands) = 2
    /\ existing_commands[1].file # existing_commands[2].file
    /\ Len(compile_commands) = 1
    /\ compile_commands[1].file = existing_commands[1].file
    /\ compile_commands[1] # existing_commands[1]
    /\ existing_commands[2] \in Range(merged)
    /\ existing_commands[1] \notin Range(merged)

---------------------------------------------------------------------------
(* C8 *)

\* no line of the log read so far is a command-start line
NoCommandStart == \A i \in 1..Len(log) : ~command_re(log[i])

\* get_raw_commands on a log without command-start line: it never leaves
\* LookingForCommand, emits nothing and does not panic
ParsesToNothing ==
    /\ state = "LookingForCommand"
    /\ cur_command = <<>>
    /\ raw_commands = <<>>
    /\ panic.kind # "no_directory"
    /\ pc \in {"read_existing", "merge", "write", "done"}
          => compile_commands = <<>>

\* C8 as stated: for a log without command-start line get_raw_commands
\* returns nothing, without error, and the merged database holds the
\* entries of the existing database, unchanged.
C8_NoCommandsKeepsDatabase ==
    NoCommandStart =>
        /\ ParsesToNothing
        /\ pc \in {"write", "done"} => Range(merged) = Range(existing_commands)

\* C8 amended: for a log without command-start line get_raw_commands
\* returns nothing, without error, and the merged database holds, for
\* every file of the existing database, the last existing entry for that
\* file and nothing else (the existing database itself when no two of its
\* entries have the same file).
C8_NoCommandsKeepsLastPerFile ==
    NoCommandStart =>
        /\ ParsesToNothing
        /\ pc \in {"write", "done"} =>
              /\ Range(merged) = {LastFor(existing_commands, f) :
                                     f \in Files(existing_commands)}
              /\ Len(merged) = Cardinality(Files(existing_commands))
        /\ pc = "done" => db_file = JsonFile(merged)

\* a log of directory announcements only was parsed and a database of two
\* entries was written back
C8_Witness ==
    /\ pc = "done"
    /\ NoCommandStart
    /\ Len(log) = MainMaxLog
    /\ Cardinality(DOMAIN dirs) = 2
    /\ Len(db_before.entries) = 2
    /\ Len(merged) = 2
    /\ Range(db_file.entries) = Range(db_before.entries)

---------------------------------------------------------------------------
(* C9 *)

\* C9: merging the result M of merge(E, N) with N again gives the entries
\* of M.
C9_MergeIdempotent ==
    pc = "merge_again_returned" =>
        /\ Range(merged) = Range(prev_merged)
        /\ Len(merged) = Len(prev_merged)

\* a result of two entries, one of them new, was merged again with the
\* same new entries and came back in another order
C9_Witness ==
    /\ pc = "merge_again_returned"
    /\ Len(prev_merged) = 2
    /\ compile_commands # <<>>
    /\ \E n \in Range(compile_commands) : n \in Range(prev_merged)
    /\ \E e \in Range(prev_merged) : e \notin Range(compile_commands)
    /\ merged # prev_merged

---------------------------------------------------------------------------
(* C10 *)

\* C10: the result never holds two entries with the same file, whatever
\* duplicates the inputs hold, and its file values are those of existing
\* and new together.
C10_FileIsKey ==
    MergeReturned =>
        /\ \A i, j \in 1..Len(merged) :
              merged[i].file = merged[j].file => i = j
        /\ Files(merged) = Files(existing_commands) \cup Files(compile_commands)

\* both inputs held two entries for one file each, and the result holds
\* one entry for each of the two files
C10_Witness ==
    /\ pc = "merge_returned"
    /\ Len(existing_commands) = 2
    /\ existing_commands[1] # existing_commands[2]
    /\ existing_commands[1].file = existing_commands[2].file
    /\ Len(compile_commands) = 2
    /\ compile_commands[1] # compile_commands[2]
    /\ compile_commands[1].file = compile_commands[2].file
    /\ compile_commands[1].file # existing_commands[1].file
    /\ Len(merged) = 2

---------------------------------------------------------------------------
(* C11 *)

\* get_raw_commands returns to main while a command is being read
ReturnsWhileReading ==
    pc = "main_parse" /\ pc' = "extract" /\ state = "ReadingCommand"

\* the source tokens of the fragments read so far for the command in
\* progress
PendingSourceFiles == SourceFilesOf(cur_command)

\* C11: when the input ends in ReadingCommand the command in progress is
\* not flushed: the returned sequence is the one of the commands ended
\* before, the buffer is left as it is, no error is raised even when the
\* thread has no directory, and the entries extracted are those of the
\* returned commands only.
C11_TrailingCommandDropped ==
    /\ [][ReturnsWhileReading
            => /\ raw_commands' = raw_commands
               /\ cur_command' = cur_command
               /\ state' = "ReadingCommand"
               /\ panic' = NoPanic]_vars
    /\ []((pc \in {"read_existing", "merge", "write", "done"}
              /\ state = "ReadingCommand")
            => /\ cur_command # <<>>
               /\ \A k \in 1..Len(raw_commands) :
                     \E i \in 1..Len(log) : ReadFrom(raw_commands[k], i)
               /\ compile_commands = CollectEntries(raw_commands)
               /\ (raw_commands = <<>> => compile_commands = <<>>))

\* the log ended in a command with a source file whose thread has no
\* directory, and the run wrote the database without any new entry
C11_Witness ==
    /\ pc = "done"
    /\ state = "ReadingCommand"
    /\ cur_thread \notin DOMAIN dirs
    /\ PendingSourceFiles # <<>>
    /\ raw_commands = <<>>
    /\ compile_commands = <<>>
    /\ db_file = JsonFile(merged)

---------------------------------------------------------------------------
(* CompileCommandsEntry::from_raw_command on its own *)

\* most lines of a raw command given to from_raw_command
MaxLines == 3

\* 'cl foo.cpp bar.c'
FragTwo ==
    <<"c","l"," ","f","o","o",".","c","p","p"," ","b","a","r",".","c">>
\* 'cl -c x.c'
FragOne ==
    <<"c","l"," ","-","c"," ","x",".","c">>
\* 'cl program.cppx library.ccpp'
FragNear ==
    <<"c","l"," ","p","r","o","g","r","a","m",".","c","p","p","x"," ","l","i","b","r","a","r","y",".","c","c","p","p">>
\* 'cl /nologo'
FragNone ==
    <<"c","l"," ","/","n","o","l","o","g","o">>
\* 'foo.cpps\tfoo.CPP  z.c'
FragContNear ==
    <<"f","o","o",".","c","p","p","s","\t","f","o","o",".","C","P","P"," "," ","z",".","c">>
\* '/c/v.c'
FragContAbs ==
    <<"/","c","/","v",".","c">>
\* '-I inc .c'
FragContOpt ==
    <<"-","I"," ","i","n","c"," ",".","c">>
\* '/a/'
PathASlash ==
    <<"/","a","/">>

\* first fragments of a command: what is left of a command-start line
FirstFragments == {FragTwo, FragOne, FragNear, FragNone}

\* fragments of continuation lines
ContinuationFragments == {FragContNear, FragContAbs, FragContOpt}

\* the vectors of lines of a raw command: a first fragment and up to
\* MaxLines - 1 continuation fragments
LineVectors ==
    {<<f>> \o c : f \in FirstFragments,
                  c \in UNION {[1..k -> ContinuationFragments] :
                                  k \in 0..(MaxLines - 1)}}

\* the raw commands from_raw_command is applied to
RawCommands ==
    {[dir |-> d, lines |-> l] : d \in {PathA, PathB, PathASlash},
                                l \in LineVectors}

ExtractInit ==
    /\ pc = "extract"
    /\ log = <<>>
    /\ state = "LookingForCommand"
    /\ cur_command = <<>>
    /\ command_prefix = <<>>
    /\ cur_thread = <<>>
    /\ dirs = EmptyMap
    /\ \E c \in RawCommands : raw_commands = <<c>>
    /\ panic = NoPanic
    /\ compile_commands = <<>>
    /\ existing_commands = <<>>
    /\ merged = <<>>
    /\ prev_merged = <<>>
    /\ db_file = NoFile
    /\ db_before = NoFile

ExtractNext == Extract

ExtractSpec == ExtractInit /\ [][ExtractNext]_vars

---------------------------------------------------------------------------
(* Vocabulary of the extractor properties *)

\* the whitespace-delimited tokens of a line, as pairs of first and last
\* position: maximal runs of characters other than whitespace
TokenSpans(line) ==
    {s \in (1..Len(line)) \X (1..Len(line)) :
        /\ s[1] <= s[2]
        /\ \A i \in s[1]..s[2] : line[i] \notin {" ", "\t"}
        /\ (s[1] = 1 \/ line[s[1] - 1] \in {" ", "\t"})
        /\ (s[2] = Len(line) \/ line[s[2] + 1] \in {" ", "\t"})}

\* the token's text ends with exactly '.c' or '.cpp'
EndsInSourceSuffix(line, s) ==
    \/ /\ s[2] - s[1] >= 1
       /\ line[s[2] - 1] = "."
       /\ line[s[2]] = "c"
    \/ /\ s[2] - s[1] >= 3
       /\ line[s[2] - 3] = "."
       /\ line[s[2] - 2] = "c"
       /\ line[s[2] - 1] = "p"
       /\ line[s[2]] = "p"

\* the source tokens of the lines, as triples of line, first and last
\* position
SourceSpans(lines) ==
    UNION {{<<j, s[1], s[2]>> :
               s \in {t \in TokenSpans(lines[j]) :
                         EndsInSourceSuffix(lines[j], t)}} :
           j \in 1..Len(lines)}

\* the text of a source token
SpanText(lines, t) == SubSeq(lines[t[1]], t[2], t[3])

\* the place of a source token among the source tokens, in the order of
\* the lines and of the positions in a line
SpanRank(lines, t) ==
    1 + Cardinality({u \in SourceSpans(lines) :
                        u[1] < t[1] \/ (u[1] = t[1] /\ u[2] < t[2])})

\* from_raw_command has returned its entries for raw_commands[1]
ExtractReturned == pc = "read_existing" /\ Len(raw_commands) = 1

---------------------------------------------------------------------------
(* C12 *)

\* C12: from_raw_command yields one entry per source token, in the order
\* of the tokens; every entry has the directory of the command and, as
\* command, the lines joined by single spaces; the entries differ in
\* file only.
C12_OneEntryPerSourceToken ==
    ExtractReturned =>
        LET c == raw_commands[1]
            spans == SourceSpans(c.lines)
        IN  /\ Len(compile_commands) = Cardinality(spans)
            /\ \A t \in spans :
                  compile_commands[SpanRank(c.lines, t)].file
                      = Absolute(PathJoin(c.dir, SpanText(c.lines, t)))
            /\ \A i \in 1..Len(compile_commands) :
                  /\ compile_commands[i].directory = c.dir
                  /\ compile_commands[i].command = Join(c.lines, <<" ">>)
                  /\ DOMAIN compile_commands[i]
                         = {"directory", "command", "file"}

\* a command of two lines with the tokens foo.cpp and bar.c on the first
\* and a third source token on the second gave three entries with three
\* files
C12_Witness ==
    /\ ExtractReturned
    /\ Len(raw_commands[1].lines) = 2
    /\ raw_commands[1].lines[1] = FragTwo
    /\ Len(compile_commands) = 3
    /\ Cardinality({compile_commands[i].file : i \in 1..3}) = 3
    /\ Cardinality({compile_commands[i].command : i \in 1..3}) = 1

---------------------------------------------------------------------------
(* C13 *)

\* the tokens program.cppx, library.ccpp, foo.cpps and foo.CPP
NearMatches ==
    {SubSeq(FragNear, 4, 15), SubSeq(FragNear, 17, 28),
     SubSeq(FragContNear, 1, 8), SubSeq(FragContNear, 10, 16)}

\* C13: source_files returns the tokens whose text ends with exactly '.c'
\* or '.cpp', all of them, in order, and no other token: the near-matches
\* program.cppx, library.ccpp, foo.cpps and foo.CPP are never returned and
\* give no entry.
C13_SuffixOnly ==
    pc \in {"extract", "read_existing"} /\ Len(raw_commands) = 1 =>
        LET c == raw_commands[1]
            spans == SourceSpans(c.lines)
            files == source_files(c)
        IN  /\ Len(files) = Cardinality(spans)
            /\ \A t \in spans :
                  files[SpanRank(c.lines, t)] = SpanText(c.lines, t)
            /\ \A i \in 1..Len(files) : files[i] \notin NearMatches
            /\ pc = "read_existing" =>
                  /\ Len(compile_commands) = Len(files)
                  /\ \A i \in 1..Len(compile_commands), n \in NearMatches :
                        compile_commands[i].file
                            # Absolute(PathJoin(c.dir, n))

\* a command whose lines hold the four near-matches and one source token
\* gave exactly one entry
C13_Witness ==
    /\ ExtractReturned
    /\ raw_commands[1].lines = <<FragNear, FragContNear>>
    /\ Len(compile_commands) = 1
    /\ source_files(raw_commands[1]) = <<SubSeq(FragContNear, 19, 21)>>

---------------------------------------------------------------------------
(* C14 *)

\* C14: every entry the extractor produces has an absolute directory and
\* an absolute file, also when the directory of the command was announced
\* as a relative path.
C14_DirectoryAndFileAbsolute ==
    \A i \in 1..Len(compile_commands) :
        /\ compile_commands[i].directory # <<>>
        /\ compile_commands[i].directory[1] = "/"
        /\ compile_commands[i].file # <<>>
        /\ compile_commands[i].file[1] = "/"

---------------------------------------------------------------------------
(* C15 *)

\* the chain the merge iterates over: existing followed by new
Chain == existing_commands \o compile_commands

\* C15: when the merge has returned, every file of the new entries has
\* exactly one entry in the result, and that entry is the last one for
\* the file in the new sequence; for every
\* file of the chain existing followed by new, the result holds exactly
\* one entry and it is the last entry for the file in the chain; and the
\* result holds no entry for any other file.
C15_LastInChainWins ==
    MergeReturned =>
        /\ \A f \in Files(compile_commands) :
              /\ Cardinality(EntriesFor(merged, f)) = 1
              /\ \A i \in EntriesFor(merged, f) :
                    merged[i] = LastFor(compile_commands, f)
        /\ \A f \in Files(Chain) :
              /\ Cardinality(EntriesFor(merged, f)) = 1
              /\ \A i \in EntriesFor(merged, f) :
                    merged[i] = LastFor(Chain, f)
        /\ Files(merged) = Files(Chain)

\* the new entries hold the same file twice with different commands, and
\* the result holds the second of them and not the first
C15_Witness ==
    /\ pc = "merge_returned"
    /\ Len(compile_commands) = 2
    /\ compile_commands[1].file = compile_commands[2].file
    /\ compile_commands[1].command # compile_commands[2].command
    /\ compile_commands[2] \in Range(merged)
    /\ compile_commands[1] \notin Range(merged)
    /\ Len(existing_commands) = 1
    /\ existing_commands[1].file = compile_commands[1].file

---------------------------------------------------------------------------
(* C16 *)

\* C16: a step that reads a directory-announcement line of thread T in
\* state LookingForCommand leaves the parser in LookingForCommand with
\* an empty line buffer, leaves the emitted raw commands (and so their
\* directories), the current thread and the prefix as they were, raises
\* no panic, and changes the directory map at T only: T maps to the
\* announced directory and every other thread maps to what it did.
C16_DirLineChangesOnlyOwnDir ==
    [][(LineRead /\ state = "LookingForCommand" /\ IsDirLine(Last(log')))
        => LET T == TagOf(Last(log'))
           IN  /\ state' = "LookingForCommand"
               /\ cur_command = <<>> /\ cur_command' = <<>>
               /\ raw_commands' = raw_commands
               /\ cur_thread' = cur_thread
               /\ command_prefix' = command_prefix
               /\ panic' = panic
               /\ DOMAIN dirs' = DOMAIN dirs \cup {T}
               /\ dirs'[T] = DirOf(Last(log'))
               /\ \A t \in DOMAIN dirs \ {T} : dirs'[t] = dirs[t]]_vars

\* after a command of thread 1 was emitted with directory /a and thread 2
\* announced /c, thread 1 announces b: the map holds b for thread 1, still
\* /c for thread 2, and the emitted command still carries /a
C16_Witness ==
    /\ log = <<LineDirA1, LineCl1, LineOther, LineDirA2, LineDirB1>>
    /\ state = "LookingForCommand"
    /\ cur_command = <<>>
    /\ dirs[TagOf(LineDirB1)] = DirOf(LineDirB1)
    /\ dirs[TagOf(LineDirA2)] = DirOf(LineDirA2)
    /\ Len(raw_commands) = 1
    /\ raw_commands[1].dir = DirOf(LineDirA1)

---------------------------------------------------------------------------
(* C17 *)

\* the indices of the lines read so far that match command_re
CommandStarts == {i \in 1..Len(log) : command_re(log[i])}

\* there are log positions, one per emitted command and strictly
\* increasing with the command's index, such that each command was read
\* from the lines at its position and the next command starts after the
\* line that ended it
InLogOrder ==
    \E starts \in [1..Len(raw_commands) -> 1..Len(log)] :
        /\ \A k \in 1..Len(raw_commands) : ReadFrom(raw_commands[k], starts[k])
        /\ \A k \in 1..(Len(raw_commands) - 1) :
              starts[k] + Len(raw_commands[k].lines) < starts[k + 1]

\* C17: no step removes or changes an emitted command (the vector before
\* the step is a prefix of the vector after it); and in every state the
\* emitted commands are in the order of the log positions of their
\* command-start lines and are no more than the command-start lines read.
C17_OrderedAppendOnly ==
    /\ [][/\ Len(raw_commands') >= Len(raw_commands)
          /\ SubSeq(raw_commands', 1, Len(raw_commands)) = raw_commands]_vars
    /\ [](InLogOrder /\ Len(raw_commands) <= Cardinality(CommandStarts))

\* two different commands were emitted, the first from line 2 and the
\* second from line 4 of the log, and get_raw_commands returned them
C17_Witness ==
    /\ pc = "returned"
    /\ log = <<LineDirA1, LineCl1, LineOther, LineCl1b, LineOther>>
    /\ Len(raw_commands) = 2
    /\ raw_commands[1].lines = <<Fragment(LineCl1)>>
    /\ raw_commands[2].lines = <<Fragment(LineCl1b)>>
    /\ raw_commands[1] # raw_commands[2]

---------------------------------------------------------------------------
(* C18 *)

\* the log index of the line that opened the command being read: the
\* buffer holds one fragment per line from it to the last processed line
\* (the line on which the parser panicked was read but not processed)
OpeningIndex ==
    Len(log) - (IF pc = "panicked" THEN 1 ELSE 0) - Len(cur_command) + 1

\* C18: in every state the line buffer is empty exactly when the parser
\* is in LookingForCommand; in ReadingCommand the buffer holds at least
\* one fragment, the line that opened it is a command-start line, the
\* current thread is that line's tag and the prefix is that tag followed
\* by '>' and three spaces, and the buffer holds the fragments of the
\* lines from the opening line on and of no other line; every emitted
\* command has at least one line; and the emitted commands were read
\* from disjoint runs of log lines.
C18_BufferMatchesState ==
    /\ (cur_command = <<>>) <=> (state = "LookingForCommand")
    /\ state = "ReadingCommand" =>
          /\ Len(cur_command) >= 1
          /\ OpeningIndex >= 1
          /\ command_re(log[OpeningIndex])
          /\ cur_thread = TagOf(log[OpeningIndex])
          /\ command_prefix = ContinuationPrefix(TagOf(log[OpeningIndex]))
          /\ \A j \in 1..Len(cur_command) :
                cur_command[j] = Fragment(log[OpeningIndex + j - 1])
    /\ \A k \in 1..Len(raw_commands) : Len(raw_commands[k].lines) >= 1
    /\ InLogOrder

\* a second command is being read after a first was emitted: the buffer
\* holds the two fragments of the second command only, and the emitted
\* command holds its own single fragment
C18_Witness ==
    /\ log = <<LineDirA1, LineCl1, LineOther, LineCl1b, LineCont1>>
    /\ state = "ReadingCommand"
    /\ cur_command = <<Fragment(LineCl1b), Fragment(LineCont1)>>
    /\ cur_thread = TagOf(LineCl1b)
    /\ Len(raw_commands) = 1
    /\ raw_commands[1].lines = <<Fragment(LineCl1)>>

---------------------------------------------------------------------------
(* C19 *)

\* the line read by the step is accepted as a line of a command: it
\* matches command_re in LookingForCommand, or starts with the
\* continuation prefix in ReadingCommand
AcceptsLine ==
    /\ LineRead
    /\ \/ state = "LookingForCommand" /\ command_re(Last(log'))
       \/ state = "ReadingCommand" /\ IsContinuation(Last(log'), command_prefix)

\* the rest of the line after the four-digit tag and '>', trimmed
AfterSeparator(line) == Trim(SliceFrom(line, TagWidth + 1))

\* C19: for every line accepted as a command-start or continuation line,
\* the text removed by the strip is the four-digit tag followed by '>',
\* and the fragment pushed to the buffer is the rest of the line after
\* that separator, trimmed; the first fragment of a buffer, and of every
\* emitted RawCommand, begins with 'cl'.
C19_StripInLockStep ==
    /\ [][AcceptsLine =>
            LET line == Last(log')
            IN  /\ IsCharBoundary(line, StripOffset)
                /\ Len(line) - Len(ByteSliceFrom(line, StripOffset))
                      = TagWidth + 1
                /\ line[TagWidth + 1] = ">"
                /\ cur_command' = Append(cur_command, AfterSeparator(line))]_vars
    /\ [](/\ cur_command # <<>> => StartsWith(cur_command[1], <<"c","l">>)
          /\ \A k \in 1..Len(raw_commands) :
                StartsWith(raw_commands[k].lines[1], <<"c","l">>))

===========================================================================
